---------------------------- MODULE Spec2Model ----------------------------
(***************************************************************************)
(* Model of the reflex documentation catalog: the metadata extractor and   *)
(* the catalog builder of populate_db.py, the two tables of models.py and  *)
(* the exact-name lookups of main.py.                                      *)
(*                                                                         *)
(* Text is modelled as a sequence of atoms.  An atom is a run of letters   *)
(* ("b", "library", "Md") or one non-letter character ("_", "-", ".",      *)
(* " ").  No atom can be spelled with other atoms, so equality of atom     *)
(* sequences is equality of the strings they spell.  A markdown document   *)
(* is a sequence of lines.                                                 *)
(***************************************************************************)
EXTENDS Integers, Sequences, FiniteSets, TLC

\* ---------------------------------------------------------------- bounds

\* Most markdown files in the document tree of one behaviour.
MaxFiles == 3

\* Most runs of populate_database in one behaviour.
MaxRuns == 2

\* Most lines of a document body drawn for the extractor.
MaxBody == 2

\* ------------------------------------------------------------------ text

\* The lower-case and the capitalised spelling of every run of letters.
LetterForms ==
  { <<"a", "A">>, <<"b", "B">>, <<"c", "C">>, <<"f", "F">>, <<"g", "G">>,
    <<"t", "T">>, <<"x", "X">>, <<"library", "Library">>, <<"md", "Md">>,
    <<"rst", "Rst">>, <<"reflex", "Reflex">>, <<"docs", "Docs">>,
    <<"other", "Other">> }

IsLetters(a) == \E p \in LetterForms : a = p[1] \/ a = p[2]

\* str.lower() and str.capitalize() of one run of letters.
Lower(a) == (CHOOSE p \in LetterForms : a = p[1] \/ a = p[2])[1]

Capitalize(a) == (CHOOSE p \in LetterForms : a = p[1] \/ a = p[2])[2]

IsSpace(a) == a \in {" ", "\n"}

\* str.title(): a run of letters that follows a non-letter (or starts the
\* string) is capitalised, a run that follows letters is lower-cased.
Title(s) ==
  [i \in 1..Len(s) |->
     IF ~IsLetters(s[i]) THEN s[i]
     ELSE IF i = 1 \/ ~IsLetters(s[i - 1]) THEN Capitalize(s[i])
     ELSE Lower(s[i])]

\* str.replace(old, new) for one-character old and new.
Replace(s, old, new) == [i \in 1..Len(s) |-> IF s[i] = old THEN new ELSE s[i]]

\* str.strip(): leading and trailing white space removed.
Strip(s) ==
  LET keep == {i \in 1..Len(s) : ~IsSpace(s[i])}
  IN  IF keep = {} THEN <<>>
      ELSE SubSeq(s, CHOOSE i \in keep : \A j \in keep : i <= j,
                     CHOOSE i \in keep : \A j \in keep : j <= i)

\* Path(file_path).stem of a file name: the name up to its last dot, unless
\* that dot starts or ends the name.
Stem(fname) ==
  LET dots == {i \in 1..Len(fname) : fname[i] = "."}
      last == CHOOSE i \in dots : \A j \in dots : j <= i
  IN  IF dots = {} THEN fname
      ELSE IF last > 1 /\ last < Len(fname) THEN SubSeq(fname, 1, last - 1)
      ELSE fname

\* file.endswith(".md")
IsMarkdown(fname) ==
  Len(fname) >= 2 /\ fname[Len(fname) - 1] = "." /\ fname[Len(fname)] = "md"

\* ------------------------------------------------------------- documents

\* The lines of a markdown document.  t is the text after the line's marker.
\* A heading and a list item always carry some text that is not blank.
Delim == [k |-> "delim", t |-> <<>>]

CompKey == [k |-> "comp", t |-> <<>>]

Item(v) == [k |-> "item", t |-> v]

Heading(t) == [k |-> "head", t |-> t]

Subheading(t) == [k |-> "sub", t |-> t]

Text(t) == [k |-> "text", t |-> t]

Blank == [k |-> "blank", t |-> <<>>]

\* The characters of one line.
Raw(l) ==
  CASE l.k = "delim" -> <<"-", "-", "-">>
    [] l.k = "comp"  -> <<"components:">>
    [] l.k = "item"  -> <<"-", " ">> \o l.t
    [] l.k = "head"  -> <<"#", " ">> \o l.t
    [] l.k = "sub"   -> <<"#", "#", " ">> \o l.t
    [] l.k = "text"  -> l.t
    [] OTHER         -> <<>>

Min(S) == CHOOSE i \in S : \A j \in S : i <= j

\* Lines from..to of a document joined by newlines.
RECURSIVE JoinLines(_, _, _)
JoinLines(c, from, to) ==
  IF from > to THEN <<>>
  ELSE IF from = to THEN Raw(c[from])
  ELSE Raw(c[from]) \o <<"\n">> \o JoinLines(c, from + 1, to)

\* re.search(r"---\s*\n(.*?)\n---", content, re.DOTALL): the lines between
\* the first --- line and the next --- line at least two lines below it
\* (the body and the closing newline need a line of their own).  <<>> with
\* found FALSE when there is no such pair.
FrontmatterMatch(c) ==
  LET D  == {i \in 1..Len(c) : c[i].k = "delim"}
      J  == {j \in D : j >= Min(D) + 2}
  IN  IF D = {} \/ J = {} THEN [found |-> FALSE, body |-> <<>>]
      ELSE [found |-> TRUE, body |-> SubSeq(c, Min(D) + 1, Min(J) - 1)]

\* re.search(r"components:\s*\n\s*-\s*([^\n]+)", frontmatter).group(1): the
\* first components: line whose next line that is not blank starts with a
\* dash; the value is what follows the dash and the white space after it.
\* <<>> when nothing matches.
ComponentsMatch(body) ==
  LET NextLine(i) == {n \in (i + 1)..Len(body) : body[n].k # "blank"}
      Dash(n) == body[n].k \in {"item", "delim"}
      Hits == {i \in 1..Len(body) :
                 /\ body[i].k = "comp"
                 /\ NextLine(i) # {}
                 /\ Dash(Min(NextLine(i)))}
      n == Min(NextLine(Min(Hits)))
  IN  IF Hits = {} THEN <<>>
      ELSE IF body[n].k = "item" THEN body[n].t
      ELSE <<"-", "-">>

\* re.search(r"^#\s+(.+?)$", content, re.MULTILINE).group(1): the text of
\* the first line that starts with one # and white space.  <<>> when there
\* is none.
HeadingMatch(c) ==
  LET H == {i \in 1..Len(c) : c[i].k = "head"}
  IN  IF H = {} THEN <<>> ELSE c[Min(H)].t

\* The group of r"...\n\s*(.+?)(?:\n\n|\n#|$)" with re.DOTALL after heading
\* line h: from the first line below h that is not blank, up to the line
\* before the next blank line or the next line starting with #, or the end.
\* <<>> when only blank lines follow h.
BlockAfter(c, h) ==
  LET S == {i \in (h + 1)..Len(c) : c[i].k # "blank"}
      s == Min(S)
      E == {e \in s..Len(c) :
              e = Len(c) \/ c[e + 1].k \in {"blank", "head", "sub"}}
  IN  IF S = {} THEN <<>> ELSE Strip(JoinLines(c, s, Min(E)))

\* lines 29-35: the paragraph after the first "# <name>" of the document.
ComponentDescription(c, name) ==
  LET H == {i \in 1..Len(c) :
              c[i].k \in {"head", "sub"} /\ Strip(c[i].t) = name}
  IN  IF H = {} THEN <<>> ELSE BlockAfter(c, Min(H))

\* extract_component_info with the heading tried before the frontmatter list.
extract_heading_first(c, fname) ==
  LET fm       == FrontmatterMatch(c)
      fromHead == Strip(HeadingMatch(c))
      fromList == IF fromHead # <<>> THEN fromHead
                  ELSE IF fm.found THEN Strip(ComponentsMatch(fm.body))
                  ELSE <<>>
      name     == IF fromList # <<>> THEN fromList
                  ELSE Title(Replace(Stem(fname), "_", " "))
  IN  [name |-> name,
       description |-> IF fromList # <<>> THEN ComponentDescription(c, fromList)
                       ELSE <<>>]

\* extract_component_info(content, file_path): the name and the description
\* of a component document; fname is the last part of file_path.
extract_component_info(c, fname) ==
  LET fm       == FrontmatterMatch(c)
      fromList == IF fm.found THEN Strip(ComponentsMatch(fm.body)) ELSE <<>>
      fromHead == IF fromList # <<>> THEN fromList ELSE Strip(HeadingMatch(c))
      name     == IF fromHead # <<>> THEN fromHead
                  ELSE Title(Replace(Stem(fname), "_", " "))
      desc     == IF fromHead # <<>> THEN ComponentDescription(c, fromHead)
                  ELSE <<>>
  IN  [name |-> name, description |-> desc]

\* populate_database, lines 131-141: the name of a documentation page.
DocTitle(c, fname) ==
  IF HeadingMatch(c) # <<>> THEN Strip(HeadingMatch(c))
  ELSE Title(Replace(Replace(Stem(fname), "_", " "), "-", " "))

\* populate_database, lines 151-155: the paragraph after the first heading.
DocDescription(c) ==
  LET H == {i \in 1..Len(c) : c[i].k \in {"head", "sub"}}
  IN  IF H = {} THEN <<>> ELSE BlockAfter(c, Min(H))

\* ----------------------------------------------------------------- paths

\* A file path is the sequence of its parts (Path(file_path).parts).
IndexOf(parts, seg) == Min({i \in 1..Len(parts) : parts[i] = seg})

\* get_category_from_path(file_path)
get_category_from_path(parts) ==
  IF \E i \in 1..Len(parts) : parts[i] = <<"library">>
  THEN IF IndexOf(parts, <<"library">>) < Len(parts)
       THEN Title(Replace(Replace(parts[IndexOf(parts, <<"library">>) + 1],
                                  "_", " "), "-", " "))
       ELSE <<"Other">>
  ELSE <<"Other">>

\* get_section_from_path(file_path)
get_section_from_path(parts) ==
  IF \E i \in 1..Len(parts) : parts[i] = <<"reflex", "_", "docs">>
  THEN IF IndexOf(parts, <<"reflex", "_", "docs">>) < Len(parts)
       THEN Title(Replace(Replace(
                parts[IndexOf(parts, <<"reflex", "_", "docs">>) + 1],
                "_", " "), "-", " "))
       ELSE <<"Other">>
  ELSE <<"Other">>

\* ------------------------------------------------------- the file system

\* docs_path, line 71.
DocsRoot == <<"reflex", "_", "docs">>

\* A file of the document tree: the directories below docs_path that lead
\* to it, its name and its text.
File(dirs, fname, content) ==
  [dirs |-> dirs, fname |-> fname, content |-> content]

\* os.path.join(root, file), as Path(file_path).parts.
FilePath(f) == <<DocsRoot>> \o f.dirs \o <<f.fname>>

DocB == <<Heading(<<"B">>), Blank, Text(<<"t">>)>>

DocBF == <<Heading(<<" ", "B", "_", "F">>), Text(<<"x">>)>>

DocListed ==
  <<Delim, CompKey, Item(<<"C", " ">>), Delim, Heading(<<"B">>), Text(<<"t">>)>>

DocPlain == <<Text(<<"t">>)>>

\* The files a document tree is drawn from.
Pool ==
  { File(<< <<"library">>, <<"f">> >>, <<"a", ".", "md">>, DocB),
    File(<< <<"library">>, <<"f">> >>, <<"b", ".", "md">>, DocB),
    File(<< <<"library">>, <<"f">> >>, <<"c", ".", "md">>, DocB),
    File(<< <<"library">>, <<"g">> >>, <<"a", ".", "md">>, DocB),
    File(<< <<"library">>, <<"g">> >>, <<"b", ".", "md">>, DocBF),
    File(<< <<"library">> >>, <<"a", "_", "b", ".", "md">>, DocPlain),
    File(<< <<"f">> >>, <<"a", ".", "md">>, DocB),
    File(<< <<"g">> >>, <<"a", "-", "b", ".", "md">>, DocListed),
    File(<< <<"x", "library">> >>, <<"a", ".", "md">>, DocB),
    File(<< <<"f">> >>, <<"a", ".", "rst">>, DocB) }

\* Most files of the tree whose read raises.
MaxUnreadable == 1

IsPrefix(s, t) == Len(s) <= Len(t) /\ SubSeq(t, 1, Len(s)) = s

\* The orders os.walk can yield the files of a tree in: the files of one
\* directory together, a directory's files before those of the directories
\* below it.  Nothing else about the order is fixed.
WalkOrders(T) ==
  LET n == Cardinality(T)
  IN  { o \in [1..n -> T] :
          /\ \A i, j \in 1..n : i # j => o[i] # o[j]
          /\ \A i, j \in 1..n :
               i < j => ~(o[j].dirs # o[i].dirs /\ IsPrefix(o[j].dirs, o[i].dirs))
          /\ \A i, j, k \in 1..n :
               (i < j /\ j < k /\ o[i].dirs = o[k].dirs) => o[j].dirs = o[i].dirs }

\* os.walk(library_path), lines 82-84: the files below reflex_docs/library.
UnderLibrary(f) == Len(f.dirs) >= 1 /\ f.dirs[1] = <<"library">>

\* "library" in root, line 121: the directory's path holds the substring.
RootHoldsLibrary(f) ==
  \E i \in 1..Len(f.dirs) : \E j \in 1..Len(f.dirs[i]) : f.dirs[i][j] = "library"

DocsWalked(f) == ~RootHoldsLibrary(f)

\* --------------------------------------------------------------- storage

\* The two tables of models.py, each a set of rows.
EmptyCatalog == [comp |-> {}, doc |-> {}]

Row(name, cls, path, content, description) ==
  [name |-> name, cls |-> cls, file_path |-> path, content |-> content,
   description |-> description]

\* A catalog left by a build over an earlier tree, none of whose files is in
\* the pool.
StaleCatalog ==
  [comp |-> { Row(<<"B">>, <<"F">>,
                  <<DocsRoot, <<"library">>, <<"f">>, <<"t", ".", "md">> >>,
                  <<Heading(<<"B">>)>>, <<>>) },
   doc  |-> { Row(<<"B">>, <<"G">>,
                  <<DocsRoot, <<"g">>, <<"t", ".", "md">> >>,
                  <<Heading(<<"B">>)>>, <<>>) }]

\* Field(unique=True) on name, models.py lines 11 and 21: an INSERT fails
\* when the table holds a row of that name.
CanInsert(view, p) == \A r \in view[p.tbl] : r.name # p.rec.name

\* Session.flush(): the pending rows are inserted in the order they were
\* added; the first that breaks the unique index raises IntegrityError.
RECURSIVE Flush(_, _)
Flush(view, pend) ==
  IF pend = <<>> THEN [ok |-> TRUE, view |-> view]
  ELSE IF ~CanInsert(view, pend[1]) THEN [ok |-> FALSE, view |-> view]
  ELSE Flush([view EXCEPT ![pend[1].tbl] = @ \cup {pend[1].rec}], Tail(pend))

\* The clearing step with the deletions left out.
ClearKeepsRows(view) == view

\* lines 75-78: every row of both tables is deleted.
ClearedCatalog(view) == EmptyCatalog

\* The renaming with the underscore left out of the suffix.
UniqueNameNoUnderscore(name, cls, taken) ==
  IF taken THEN name \o cls ELSE name

\* lines 97-102 and 144-149: the name a record is stored under.
UniqueName(name, cls, taken) ==
  IF taken THEN name \o <<"_">> \o cls ELSE name

VARIABLES
  tree,        \* the files of the document tree
  order,       \* the order os.walk yields them in
  unreadable,  \* the files whose open() or read() raises
  db,          \* the committed rows of the two tables
  sess,        \* the rows the builder's session sees in its transaction
  pending,     \* rows added to the session and not yet flushed
  sessOk,      \* FALSE once a flush failed and the transaction is inactive
  pc,          \* where populate_database is
  idx,         \* the position of the current walk
  runs,        \* runs of populate_database started
  log,         \* history: the records added in this run, in order
  visited,     \* history: the markdown files the walks reached in this run
  errs,        \* history: the files whose processing raised in this run
  fault,       \* history: the storage fault injected in this run
  preDb,       \* history: the catalog when this run started
  prevGood,    \* history: the catalog the last completed run left
  hasPrev,     \* history: whether a run has completed before this one
  resp,        \* the last answer of the query layer
  input,       \* the document and path handed to the extractor
  output       \* what the extractor made of it

vars ==
  <<tree, order, unreadable, db, sess, pending, sessOk, pc, idx, runs, log,
    visited, errs, fault, preDb, prevGood, hasPrev, resp, input, output>>

treeVars == <<tree, order, unreadable>>

pureVars == <<input, output>>

SelectFiles(o, lib) ==
  LET Keep(f) == IF lib THEN UnderLibrary(f) ELSE DocsWalked(f)
  IN  SelectSeq(o, Keep)

LibraryWalk == SelectFiles(order, TRUE)

DocsWalk == SelectFiles(order, FALSE)

NoResp == [op |-> "none"]

NoInput == [fm |-> "none", value |-> <<>>, body |-> <<>>, dirs |-> <<>>,
            fname |-> <<>>]

NoOutput == [fn |-> "none"]

BuilderIdle ==
  /\ sess = EmptyCatalog
  /\ pending = <<>>
  /\ sessOk = TRUE
  /\ pc = "idle"
  /\ idx = 1
  /\ runs = 0
  /\ log = <<>>
  /\ visited = <<>>
  /\ errs = {}
  /\ fault = "none"
  /\ preDb = db
  /\ prevGood = EmptyCatalog
  /\ hasPrev = FALSE
  /\ resp = NoResp

Init ==
  /\ tree \in {T \in SUBSET Pool : Cardinality(T) <= MaxFiles}
  /\ order \in WalkOrders(tree)
  /\ unreadable \in {U \in SUBSET tree : Cardinality(U) <= MaxUnreadable}
  /\ db \in {EmptyCatalog, StaleCatalog}
  /\ BuilderIdle
  /\ input = NoInput
  /\ output = NoOutput

\* populate_database, lines 66-73: the tables are created if absent and a
\* session is opened.
Start ==
  /\ pc \in {"idle", "done", "failed"}
  /\ runs < MaxRuns
  /\ runs' = runs + 1
  /\ pc' = "clear"
  /\ sess' = db
  /\ pending' = <<>>
  /\ sessOk' = TRUE
  /\ idx' = 1
  /\ log' = <<>>
  /\ visited' = <<>>
  /\ errs' = {}
  /\ fault' = "none"
  /\ preDb' = db
  /\ prevGood' = IF pc = "done" THEN db ELSE prevGood
  /\ hasPrev' = (hasPrev \/ pc = "done")
  /\ UNCHANGED <<treeVars, db, resp, pureVars>>

\* lines 75-79: both tables are emptied and the deletion is committed.
Clear ==
  /\ pc = "clear"
  /\ db' = ClearedCatalog(sess)
  /\ sess' = ClearedCatalog(sess)
  /\ pc' = "library"
  /\ UNCHANGED <<treeVars, pending, sessOk, idx, runs, log, visited, errs,
                 fault, preDb, prevGood, hasPrev, resp, pureVars>>

\* lines 75-79 when storage fails: the exception leaves populate_database
\* and the session is closed, which rolls the deletion back.
ClearFault ==
  /\ pc = "clear"
  /\ pc' = "failed"
  /\ fault' = "clear"
  /\ sess' = db
  /\ UNCHANGED <<treeVars, db, pending, sessOk, idx, runs, log, visited, errs,
                 preDb, prevGood, hasPrev, resp, pureVars>>

\* One pass of a walk's inner loop over file f (lines 85-116, 124-169).
\* ioFault: storage fails while the pending rows are flushed.
ProcessFile(f, tbl, ioFault) ==
  LET fl    == Flush(sess, pending)
      info  == extract_component_info(f.content, f.fname)
      name  == IF tbl = "comp" THEN info.name ELSE DocTitle(f.content, f.fname)
      desc  == IF tbl = "comp" THEN info.description
               ELSE DocDescription(f.content)
      cls   == IF tbl = "comp" THEN get_category_from_path(FilePath(f))
               ELSE get_section_from_path(FilePath(f))
      taken == \E r \in fl.view[tbl] : r.name = name
      final == UniqueName(name, cls, taken)
      rec   == Row(final, cls, FilePath(f), f.content, desc)
  IN
  /\ idx' = idx + 1
  /\ IF ~IsMarkdown(f.fname)
     THEN UNCHANGED <<sess, pending, sessOk, log, visited, errs, fault>>
     ELSE
       /\ visited' = Append(visited, [file |-> FilePath(f), tbl |-> tbl])
       /\ IF f \in unreadable
          THEN \* open() or read() raises; the except clause logs it
            /\ errs' = errs \cup {FilePath(f)}
            /\ UNCHANGED <<sess, pending, sessOk, log, fault>>
          ELSE IF ~sessOk
          THEN \* the query raises PendingRollbackError
            /\ errs' = errs \cup {FilePath(f)}
            /\ UNCHANGED <<sess, pending, sessOk, log, fault>>
          ELSE IF ioFault \/ ~fl.ok
          THEN \* the query's autoflush raises and the transaction is
               \* rolled back
            /\ errs' = errs \cup {FilePath(f)}
            /\ sessOk' = FALSE
            /\ sess' = db
            /\ pending' = <<>>
            /\ fault' = IF ioFault THEN "flush" ELSE fault
            /\ UNCHANGED log
          ELSE
            /\ sess' = fl.view
            /\ pending' = <<[tbl |-> tbl, rec |-> rec]>>
            /\ log' = Append(log, [file |-> FilePath(f), tbl |-> tbl,
                                   extracted |-> name, cls |-> cls,
                                   final |-> final, content |-> f.content,
                                   description |-> desc])
            /\ UNCHANGED <<sessOk, errs, fault>>

\* lines 81-116: the next file of the walk of reflex_docs/library.
ProcessComponent ==
  /\ pc = "library"
  /\ idx <= Len(LibraryWalk)
  /\ \E ioFault \in BOOLEAN :
       /\ ioFault => (sessOk /\ pending # <<>> /\ LibraryWalk[idx] \notin unreadable
                        /\ IsMarkdown(LibraryWalk[idx].fname))
       /\ ProcessFile(LibraryWalk[idx], "comp", ioFault)
  /\ UNCHANGED <<treeVars, db, pc, runs, preDb, prevGood, hasPrev, resp, pureVars>>

\* line 118: the library walk is over and the walk of reflex_docs starts.
EndLibrary ==
  /\ pc = "library"
  /\ idx > Len(LibraryWalk)
  /\ pc' = "docs"
  /\ idx' = 1
  /\ UNCHANGED <<treeVars, db, sess, pending, sessOk, runs, log, visited, errs,
                 fault, preDb, prevGood, hasPrev, resp, pureVars>>

\* lines 119-169: the next file of the walk of reflex_docs.
ProcessDoc ==
  /\ pc = "docs"
  /\ idx <= Len(DocsWalk)
  /\ \E ioFault \in BOOLEAN :
       /\ ioFault => (sessOk /\ pending # <<>> /\ DocsWalk[idx] \notin unreadable
                        /\ IsMarkdown(DocsWalk[idx].fname))
       /\ ProcessFile(DocsWalk[idx], "doc", ioFault)
  /\ UNCHANGED <<treeVars, db, pc, runs, preDb, prevGood, hasPrev, resp, pureVars>>

\* line 171: the final commit flushes what is pending and commits; on an
\* inactive transaction, or when the flush breaks the unique index, it
\* raises and the session is closed.
Commit ==
  /\ pc = "docs"
  /\ idx > Len(DocsWalk)
  /\ LET fl == Flush(sess, pending)
     IN  IF sessOk /\ fl.ok
         THEN /\ db' = fl.view
              /\ sess' = fl.view
              /\ pc' = "done"
         ELSE /\ pc' = "failed"
              /\ sess' = db
              /\ UNCHANGED db
  /\ pending' = <<>>
  /\ UNCHANGED <<treeVars, sessOk, idx, runs, log, visited, errs, fault, preDb,
                 prevGood, hasPrev, resp, pureVars>>

\* line 171 when storage fails at the commit.
CommitFault ==
  /\ pc = "docs"
  /\ idx > Len(DocsWalk)
  /\ sessOk
  /\ pc' = "failed"
  /\ fault' = "commit"
  /\ sess' = db
  /\ pending' = <<>>
  /\ UNCHANGED <<treeVars, db, sessOk, idx, runs, log, visited, errs, preDb,
                 prevGood, hasPrev, resp, pureVars>>

Next ==
  \/ Start
  \/ Clear
  \/ ClearFault
  \/ ProcessComponent
  \/ EndLibrary
  \/ ProcessDoc
  \/ Commit
  \/ CommitFault

Spec == Init /\ [][Next]_vars

\* ----------------------------------------------------------- query layer

\* The body of a ComponentResponse or DocSectionResponse.
ResponseBody(r) ==
  [name |-> r.name, cls |-> r.cls, content |-> r.content,
   description |-> r.description]

\* result.scalar_one_or_none() and what the handler makes of it: no row is
\* a 404, one row is returned, several rows raise MultipleResultsFound.
Respond(rows) ==
  IF rows = {} THEN [status |-> 404, body |-> <<>>]
  ELSE IF Cardinality(rows) = 1
  THEN [status |-> 200, body |-> <<ResponseBody(CHOOSE r \in rows : TRUE)>>]
  ELSE [status |-> 500, body |-> <<>>]

\* get_component_doc answering a miss with an empty record.
get_component_doc_default(cat, name) ==
  IF {r \in cat.comp : r.name = name} = {}
  THEN [status |-> 200,
        body |-> <<[name |-> name, cls |-> <<>>, content |-> <<>>,
                    description |-> <<>>]>>]
  ELSE Respond({r \in cat.comp : r.name = name})

\* main.py get_component_doc(name)
get_component_doc(cat, name) == Respond({r \in cat.comp : r.name = name})

\* main.py get_doc(name)
get_doc(cat, name) == Respond({r \in cat.doc : r.name = name})

\* The names the query layer is asked for.
QueryNames == { <<"B">>, <<"B", "_", "F">>, <<"C">> }

Answer(cat, op, name) ==
  IF op = "get_component_doc" THEN get_component_doc(cat, name)
  ELSE get_doc(cat, name)

Phase == IF pc \in {"clear", "library", "docs"} THEN "during" ELSE pc

\* A request to the query layer; its session reads the committed rows.
Lookup ==
  /\ \E op \in {"get_component_doc", "get_doc"}, name \in QueryNames :
       resp' = [op |-> op, name |-> name, ans |-> Answer(db, op, name),
                phase |-> Phase, run |-> runs]
  /\ UNCHANGED <<treeVars, db, sess, pending, sessOk, pc, idx, runs, log,
                 visited, errs, fault, preDb, prevGood, hasPrev, pureVars>>

\* The trees the query layer is checked over.
QueryPool ==
  { File(<< <<"library">>, <<"f">> >>, <<"a", ".", "md">>, DocB),
    File(<< <<"library">>, <<"f">> >>, <<"b", ".", "md">>, DocB),
    File(<< <<"f">> >>, <<"a", ".", "md">>, DocB),
    File(<< <<"g">> >>, <<"a", "-", "b", ".", "md">>, DocListed) }

InitQuery ==
  /\ tree \in {T \in SUBSET QueryPool : Cardinality(T) <= MaxFiles}
  /\ order \in WalkOrders(tree)
  /\ unreadable \in {U \in SUBSET tree : Cardinality(U) <= MaxUnreadable}
  /\ db \in {EmptyCatalog, StaleCatalog}
  /\ BuilderIdle
  /\ input = NoInput
  /\ output = NoOutput

NextQuery ==
  \/ Start
  \/ Clear
  \/ ClearFault
  \/ ProcessComponent
  \/ EndLibrary
  \/ ProcessDoc
  \/ Commit
  \/ CommitFault
  \/ Lookup

SpecQuery == InitQuery /\ [][NextQuery]_vars

\* ------------------------------------------------- the extractor alone

\* The frontmatter block a drawn document opens with: none, one with a
\* components: list, one without, or one whose closing --- is missing.
Frontmatter(kind, value) ==
  CASE kind = "list"     -> <<Delim, CompKey, Item(value), Delim>>
    [] kind = "nolist"   -> <<Delim, Text(<<"t">>), Delim>>
    [] kind = "unclosed" -> <<Delim, CompKey, Item(value)>>
    [] OTHER             -> <<>>

Document(in) == Frontmatter(in.fm, in.value) \o in.body

InputPath(in) == <<DocsRoot>> \o in.dirs \o <<in.fname>>

BodyLines ==
  { Heading(<<"B">>), Heading(<<" ", "C", " ">>), Subheading(<<"A">>),
    Text(<<"t">>), Blank }

Bodies == UNION { [1..n -> BodyLines] : n \in 0..MaxBody }

ListValues == { <<"C">>, <<" ", "A", " ">> }

PathDirs ==
  { <<>>,
    << <<"library">> >>,
    << <<"library">>, <<"f", "_", "g">> >>,
    << <<"library">>, <<"f", "-", "g">>, <<"x">> >>,
    << <<"g", "_", "f">> >>,
    << <<"x">>, <<"library">>, <<"a">> >> }

FileNames ==
  { <<"a", ".", "md">>, <<"a", "_", "b", ".", "md">>,
    <<"a", "-", "b", ".", "md">> }

InitPure ==
  /\ input \in [fm : {"none", "list", "nolist", "unclosed"},
                value : ListValues, body : Bodies, dirs : PathDirs,
                fname : FileNames]
  /\ output = NoOutput
  /\ tree = {}
  /\ order = <<>>
  /\ unreadable = {}
  /\ db = EmptyCatalog
  /\ BuilderIdle

\* lines 92-94: the extractor on a document of the component sub-tree.
ExtractComponent ==
  /\ output = NoOutput
  /\ output' = [fn |-> "extract_component_info",
                name |-> extract_component_info(Document(input),
                                                input.fname).name,
                description |-> extract_component_info(Document(input),
                                                input.fname).description]
  /\ UNCHANGED <<treeVars, db, sess, pending, sessOk, pc, idx, runs, log,
                 visited, errs, fault, preDb, prevGood, hasPrev, resp, input>>

\* lines 131-155: name and description of a document of the rest of the tree.
ExtractDoc ==
  /\ output = NoOutput
  /\ output' = [fn |-> "doc_title",
                name |-> DocTitle(Document(input), input.fname),
                description |-> DocDescription(Document(input))]
  /\ UNCHANGED <<treeVars, db, sess, pending, sessOk, pc, idx, runs, log,
                 visited, errs, fault, preDb, prevGood, hasPrev, resp, input>>

\* line 95
Categorize ==
  /\ output = NoOutput
  /\ output' = [fn |-> "get_category_from_path",
                value |-> get_category_from_path(InputPath(input))]
  /\ UNCHANGED <<treeVars, db, sess, pending, sessOk, pc, idx, runs, log,
                 visited, errs, fault, preDb, prevGood, hasPrev, resp, input>>

\* line 143
Sectionize ==
  /\ output = NoOutput
  /\ output' = [fn |-> "get_section_from_path",
                value |-> get_section_from_path(InputPath(input))]
  /\ UNCHANGED <<treeVars, db, sess, pending, sessOk, pc, idx, runs, log,
                 visited, errs, fault, preDb, prevGood, hasPrev, resp, input>>

NextPure ==
  \/ ExtractComponent
  \/ ExtractDoc
  \/ Categorize
  \/ Sectionize

SpecPure == InitPure /\ [][NextPure]_vars

\* ---------------------------------------------------------------- claims

Finished == pc \in {"done", "failed"}

Tables == {"comp", "doc"}

\* The markdown files this run read without error.
ReadOk == {i \in 1..Len(visited) :
             \A f \in unreadable : FilePath(f) # visited[i].file}

HasRecord(v) == \E r \in db[v.tbl] : r.file_path = v.file

UniqueNames ==
  \A t \in Tables : \A r1, r2 \in db[t] : r1.name = r2.name => r1 = r2

\* C1: when populate_database is over (and storage itself did not fail),
\* no two records of a catalog share a name and every markdown file that
\* was read has a record of its own: a collision is never resolved by
\* dropping a record.
C1_UniqueAndComplete ==
  (Finished /\ fault = "none") =>
     /\ UniqueNames
     /\ \A i \in ReadOk : HasRecord(visited[i])

\* C2: a lookup made while populate_database runs answers either as the
\* catalog of before the rebuild would or as the catalog of after it does.
C2_OldOrNew ==
  (pc = "done" /\ resp.op # "none" /\ resp.phase = "during" /\ resp.run = runs)
    => \/ resp.ans = Answer(preDb, resp.op, resp.name)
       \/ resp.ans = Answer(db, resp.op, resp.name)

\* C3: when the processing of a file raised, that file is skipped and the
\* run still reaches its final commit, with a record for every other
\* markdown file the walks reached.
C3_SkipAndContinue ==
  (Finished /\ fault \notin {"clear", "commit"} /\ errs # {}) =>
     /\ pc = "done"
     /\ \A i \in 1..Len(visited) :
          visited[i].file \notin errs => HasRecord(visited[i])

\* C4: when populate_database fails, both catalogs hold exactly the records
\* they held before the run started.
C4_FailureKeepsPrior == pc = "failed" => db = preDb

\* C5: after a completed build the catalogs hold only records made from the
\* files of the current tree, and a completed build over the same tree in
\* the same discovery order leaves the catalogs exactly as the one before.
C5_FullReplaceIdempotent ==
  pc = "done" =>
     /\ \A t \in Tables : \A r \in db[t] :
          \E f \in tree : FilePath(f) = r.file_path /\ f.content = r.content
     /\ hasPrev => db = prevGood

\* C5 witness: a second build completed over a catalog that started stale
\* and holds a renamed record.
C5_Witness ==
  /\ pc = "done"
  /\ hasPrev
  /\ runs = 2
  /\ db # EmptyCatalog
  /\ \E i \in 1..Len(log) : log[i].final # log[i].extracted

\* C6: in one run every markdown file of the tree is reached exactly once,
\* by the library walk if and only if it lies under reflex_docs/library and
\* by the other walk otherwise.
C6_EachFileOnce ==
  (Finished /\ fault # "clear") =>
     \A f \in tree : IsMarkdown(f.fname) =>
        /\ Cardinality({i \in 1..Len(visited) : visited[i].file = FilePath(f)}) = 1
        /\ \A i \in 1..Len(visited) : visited[i].file = FilePath(f) =>
             visited[i].tbl = IF UnderLibrary(f) THEN "comp" ELSE "doc"

\* The names stored in log[k]'s catalog before log[k] was added.
StoredBefore(k) == {log[j].final : j \in {i \in 1..(k - 1) : log[i].tbl = log[k].tbl}}

ExtractedBefore(k) ==
  {log[j].extracted : j \in {i \in 1..(k - 1) : log[i].tbl = log[k].tbl}}

Suffixed(e) == e.extracted \o <<"_">> \o e.cls

\* C7 as stated: the first file of a catalog that resolves to a name is
\* stored under it unchanged, and a file whose name is already stored is
\* stored under name_classification.
C7_FirstKeepsName ==
  \A k \in 1..Len(log) :
     /\ log[k].extracted \notin ExtractedBefore(k) => log[k].final = log[k].extracted
     /\ log[k].extracted \in StoredBefore(k) => log[k].final = Suffixed(log[k])

\* C7 amended: a file whose extracted name equals no name stored so far in
\* its catalog in this build is stored under that name unchanged; a file
\* whose extracted name equals a stored one is stored under the name, an
\* underscore and its own classification, with no further check; and a
\* completed build leaves exactly the records so named.
C7_SuffixOnce ==
  /\ \A k \in 1..Len(log) :
       log[k].final = IF log[k].extracted \in StoredBefore(k)
                      THEN Suffixed(log[k]) ELSE log[k].extracted
  /\ pc = "done" =>
       \A t \in Tables :
         {r.name : r \in db[t]} = {log[k].final : k \in {i \in 1..Len(log) : log[i].tbl = t}}

\* C7 witness: two component files resolving to B, of categories F then G,
\* are stored as B and B_G.
C7_Witness ==
  /\ pc = "done"
  /\ \E r1, r2 \in db.comp :
       /\ r1.name = <<"B">> /\ r1.cls = <<"F">>
       /\ r2.name = <<"B", "_", "G">> /\ r2.cls = <<"G">>

\* The level-1 headings of a drawn document's body, first to last.
BodyHeadings(in) ==
  LET IsHead(l) == l.k = "head" IN SelectSeq(in.body, IsHead)

\* The file stem with underscores as spaces, title-cased, spelled out.
StemName(fname) ==
  CASE fname = <<"a", ".", "md">> -> <<"A">>
    [] fname = <<"a", "_", "b", ".", "md">> -> <<"A", " ", "B">>
    [] fname = <<"a", "-", "b", ".", "md">> -> <<"A", "-", "B">>

\* The same with hyphens as spaces too.
StemNameNoHyphen(fname) ==
  CASE fname = <<"a", ".", "md">> -> <<"A">>
    [] fname = <<"a", "_", "b", ".", "md">> -> <<"A", " ", "B">>
    [] fname = <<"a", "-", "b", ".", "md">> -> <<"A", " ", "B">>

Trimmed(t) ==
  CASE t = <<" ", "A", " ">> -> <<"A">>
    [] t = <<" ", "C", " ">> -> <<"C">>
    [] OTHER -> t

\* The name by the priority order: components: list, heading, file stem.
PriorityName(in) ==
  IF in.fm = "list" THEN Trimmed(in.value)
  ELSE IF BodyHeadings(in) # <<>> THEN Trimmed(BodyHeadings(in)[1].t)
  ELSE StemName(in.fname)

DirAfter(dirs, marker) ==
  LET M == {i \in 1..Len(dirs) : dirs[i] = marker}
  IN  IF M = {} \/ Min(M) = Len(dirs) THEN <<>> ELSE <<dirs[Min(M) + 1]>>

Normalized(seg) == Title(Replace(Replace(seg, "_", " "), "-", " "))

\* C9: the category is the normalised directory after library, or exactly
\* Other when no directory follows library (a file directly in library, or
\* no library at all), and never empty; the section likewise, for the
\* directory right under reflex_docs.
C9_Classification ==
  /\ output.fn = "get_category_from_path" =>
       /\ output.value # <<>>
       /\ output.value =
            IF DirAfter(input.dirs, <<"library">>) = <<>> THEN <<"Other">>
            ELSE Normalized(DirAfter(input.dirs, <<"library">>)[1])
  /\ output.fn = "get_section_from_path" =>
       /\ output.value # <<>>
       /\ output.value = IF input.dirs = <<>> THEN <<"Other">>
                         ELSE Normalized(input.dirs[1])

\* C10: a lookup by exact name made after a completed rebuild answers 404
\* with no record when the build stored no record of that name, and else
\* answers with one record whose content is the text of the file the
\* record was made from.
C10_ExactLookup ==
  (pc = "done" /\ resp.op # "none" /\ resp.phase = "done" /\ resp.run = runs) =>
     LET t    == IF resp.op = "get_component_doc" THEN "comp" ELSE "doc"
         made == {k \in 1..Len(log) : log[k].tbl = t /\ log[k].final = resp.name}
     IN  IF made = {}
         THEN resp.ans.status = 404 /\ resp.ans.body = <<>>
         ELSE /\ resp.ans.status = 200
              /\ Len(resp.ans.body) = 1
              /\ resp.ans.body[1].name = resp.name
              /\ \E k \in made : \E f \in tree :
                   /\ FilePath(f) = log[k].file
                   /\ resp.ans.body[1].content = f.content

\* C10 witness: after a completed rebuild one lookup found the renamed
\* component B_F.
C10_Witness ==
  /\ pc = "done"
  /\ resp.op = "get_component_doc"
  /\ resp.phase = "done"
  /\ resp.run = runs
  /\ resp.name = <<"B", "_", "F">>
  /\ resp.ans.status = 200

=============================================================================
